---- MODULE Spec2Model ----
(***************************************************************************)
(* Model of the ingestion pipeline of souben/vul-scanner                   *)
(* (service/vulnerabality.go): one Scan invocation, its search with        *)
(* retries, the pool-bounded fan-out of processFile units, the mutex       *)
(* protected outcome lists and the final all-failed decision.              *)
(***************************************************************************)
EXTENDS Integers, Sequences, FiniteSets, TLC

\* ------------------------------------------------------------------ bounds
\* Largest number of locators a search response holds in the model.
MaxItems == 2
\* Largest pool capacity the configuration yields in the model.
MaxConcurrency == 2
\* Largest value the wall clock reaches in the model.
MaxClock == 1
\* Largest number of records the storage holds in the model.
MaxStored == 3
\* Largest number of file-name hints handed to Scan in the model.
MaxHints == 3

\* ------------------------------------------------------- program constants
\* MAX_RETRIES = getEnvAsIntOrDefault("MAX_RETRIES", 2)
MAX_RETRIES == 2

\* --------------------------------------------------------------- data sets
\* Repository identifiers handed to Scan.
Repos == {"o/r"}
\* The path of the i-th locator of a search response: the search returns one
\* locator per matching file of the repository.
PathOf(i) == <<"a.json", "b.json", "c.json", "d.json">>[i]
\* The item lists a successful search can decode (response.Items).
ItemLists == {[i \in 1..n |-> PathOf(i)] : n \in 0..MaxItems}

\* A fetched body: valid says whether json.Unmarshal accepts it as a list of
\* ScanPayloads; blocks is what it decodes to (one sequence of record ids per
\* block).
Body(valid, blocks) == [valid |-> valid, blocks |-> blocks]
\* data before any io.ReadAll assigned it (var data []byte).
NilData == Body(FALSE, <<>>)
\* Bodies a complete read can deliver: a malformed one, one whose blocks hold
\* no vulnerability, one with vulnerabilities.
FullBodies ==
    { Body(FALSE, <<>>),
      Body(TRUE, << <<>> >>),
      Body(TRUE, << <<"v1">>, <<>>, <<"v2", "v1">> >>) }
\* What io.ReadAll has read when it returns an error: a prefix of the body.
\* json.Unmarshal rejects it, unless only trailing white space is missing.
PartialBodies ==
    { Body(FALSE, <<>>),
      Body(TRUE, << <<"v1">>, <<>>, <<"v2", "v1">> >>) }

\* error values
NilErr == [kind |-> "nil", cause |-> "nil"]
Err(kind, cause) == [kind |-> kind, cause |-> cause]

\* Outcomes of one iteration of the search loop: http.NewRequest fails,
\* client.Do fails, the status is not 200, io.ReadAll fails, json.Unmarshal
\* fails, or the items are decoded.
SearchOutcomes == {"request", "transport", "status", "read", "decode", "ok"}
\* Outcomes of one iteration of the download loop.
FetchOutcomes == {"request", "transport", "status", "read", "ok"}

Units == 1..MaxItems

\* Severity strings of stored records, and the ones a query asks for: two of
\* them differ in case only, and one is used by no record.
StoredSeverities == {"HIGH", "high", "MEDIUM"}
Severities == StoredSeverities \cup {"LOW"}
\* The identifier of the i-th stored record.
IdOf(i) == <<"CVE-1", "CVE-2", "CVE-3", "CVE-4", "CVE-5">>[i]
\* The record lists the storage can hold (vulnerabilitiesToReturn).
StoredLists ==
    UNION {{[i \in 1..n |-> [ID |-> IdOf(i), Severity |-> f[i]]] :
               f \in [1..n -> StoredSeverities]} : n \in 0..MaxStored}

\* Repository names and file-name hints handed to buildGitHubSearchURL.
UrlRepos == {"o/r", "org/app", ""}
Hints == {"scan", "report", "a.b"}
HintLists == UNION {[1..n -> Hints] : n \in 0..MaxHints}

VARIABLES
    CONCURRENCY,     \* capacity of the pool channel
    database,        \* the package-level storage handle: "nil" or "open"
    token,           \* GITHUB_API_TOKEN is set
    repoName,        \* argument of Scan
    now,             \* the last value time.Now() returned
    pc,              \* position of the Scan goroutine
    result,          \* what Scan returned
    attempt,         \* searchGitHubFiles: loop counter
    searchSleeps,    \* searchGitHubFiles: the time.Sleep durations, in order
    searchErr,       \* searchGitHubFiles: err of the function scope
    searchLast,      \* outcome of the last iteration the search loop made
    items,           \* the locators the search returned
    idx,             \* processFilesInParallel: position of the range loop
    pool,            \* number of elements in the pool channel
    wg,              \* WaitGroup counter
    mu,              \* holder of the mutex (0: free)
    processedFiles,  \* shared success list
    errorsOccurred,  \* shared error list
    upc,             \* position of each unit's goroutine
    uAttempt,        \* processFile: loop counter of each unit
    uSleeps,         \* processFile: the time.Sleep durations of each unit
    uLast,           \* processFile: outcome of the last iteration of the loop
    uErr,            \* processFile: err of the function scope
    uData,           \* processFile: data
    uVulns,          \* processFile: vulnerabilities
    uRet,            \* what processFile returned to the goroutine
    uItem,           \* the locator (its path) each goroutine was started with
    saveCalls,       \* per unit, the batches handed to SaveVulnerabilities
    filenames,       \* argument of Scan and of buildGitHubSearchURL
    url,             \* what buildGitHubSearchURL returned
    stored,          \* the records the storage answers reads from
    sinkErr,         \* the storage fails its reads (m.err != nil)
    severity,        \* argument of Filter
    fRet,            \* what Filter returned
    qBody,           \* the body of the request the Query handler got
    responses        \* what the Query handler wrote to its gin.Context

vars == << CONCURRENCY, database, token, repoName, now, pc, result, attempt,
           searchSleeps, searchErr, searchLast, items, idx, pool, wg, mu,
           processedFiles, errorsOccurred, upc, uAttempt, uSleeps, uLast,
           uErr, uData, uVulns, uRet, uItem, saveCalls, filenames, url,
           stored, sinkErr, severity, fRet, qBody, responses >>

searchVars == << attempt, searchSleeps, searchErr, searchLast >>
poolVars == << idx, pool, wg, mu, processedFiles, errorsOccurred >>
unitVars == << upc, uAttempt, uSleeps, uLast, uErr, uData, uVulns, uRet,
               uItem, saveCalls >>
\* The state of the query side: the storage content and the last Filter call.
queryVars == << stored, sinkErr, severity, fRet, qBody, responses >>
\* The request URL of the scan and what it was built from.
urlVars == << filenames, url >>
envVars == << CONCURRENCY, database, token, repoName, urlVars, queryVars >>

\* ------------------------------------------------------------------ values
\* An entry of errorsOccurred: "error processing <path>: <err>".
UnitError(path, e) == [path |-> path, err |-> e]
NoUnitError == UnitError("", NilErr)

\* What Scan returns: (nil, err) or (&ScanResult{...}, nil). first is the
\* entry of errorsOccurred an "all files failed" error reports.
NoResult ==
    [kind |-> "none", err |-> NilErr, first |-> NoUnitError,
     ProcessedFiles |-> 0, ScanTime |-> 0, SourceRepo |-> "",
     SourceFiles |-> <<>>]
ErrorResult(e, first) ==
    [kind |-> "error", err |-> e, first |-> first,
     ProcessedFiles |-> 0, ScanTime |-> 0, SourceRepo |-> "",
     SourceFiles |-> <<>>]
ScanResult(n, t, r, files) ==
    [kind |-> "summary", err |-> NilErr, first |-> NoUnitError,
     ProcessedFiles |-> n, ScanTime |-> t, SourceRepo |-> r,
     SourceFiles |-> files]

\* GITHUB_API = getEnvOrDefault("GITHUB_API", ...): the base of the request URL.
GITHUB_API == "https://api.github.com/search/code"

\* A URL is kept as its base and the terms of its query, in order: a term is
\* what one Sprintf appends, "<key>:<value><suffix>".
Term(key, value, suffix) == [key |-> key, value |-> value, suffix |-> suffix]
NoUrl == [kind |-> "none", base |-> "", terms |-> <<>>]
Url(base, terms) == [kind |-> "url", base |-> base, terms |-> terms]
\* log.Fatal: the process exits and no URL is returned.
FatalExit == [kind |-> "fatal", base |-> "", terms |-> <<>>]

\* The body of a query request: valid says whether c.BindJSON accepts it,
\* severity is body.Filters.Severity.
QueryBody(valid, s) == [kind |-> "body", valid |-> valid, severity |-> s]
NoBody == [kind |-> "none", valid |-> FALSE, severity |-> ""]
\* The bodies a request can carry: one that does not bind, and one per
\* severity string, the empty one included.
QueryBodies ==
    {QueryBody(FALSE, "")} \cup {QueryBody(TRUE, s) : s \in Severities \cup {""}}

\* One call of c.JSON(status, ...): an error object or the result list.
ErrorResponse(status) == [status |-> status, kind |-> "error", list |-> <<>>]
ResultResponse(status, list) == [status |-> status, kind |-> "result", list |-> list]

\* What Filter returns: (list, err).
NoFilterReturn == [kind |-> "none", list |-> <<>>, err |-> NilErr]
FilterReturn(list, e) == [kind |-> "returned", list |-> list, err |-> e]

\* time.Now(): the clock never runs backwards; it may have advanced since the
\* last reading.
Clock == {t \in now..(now + 1) : t <= MaxClock}

\* No Scan has been started yet.
ScanIdle ==
    /\ now = 0
    /\ pc = "Idle"
    /\ result = NoResult
    /\ attempt = 0
    /\ searchSleeps = <<>>
    /\ searchErr = NilErr
    /\ searchLast = "none"
    /\ items = <<>>
    /\ idx = 1
    /\ pool = 0
    /\ wg = 0
    /\ mu = 0
    /\ processedFiles = <<>>
    /\ errorsOccurred = <<>>
    /\ upc = [u \in Units |-> "none"]
    /\ uAttempt = [u \in Units |-> 0]
    /\ uSleeps = [u \in Units |-> <<>>]
    /\ uLast = [u \in Units |-> "none"]
    /\ uErr = [u \in Units |-> NilErr]
    /\ uData = [u \in Units |-> NilData]
    /\ uVulns = [u \in Units |-> <<>>]
    /\ uRet = [u \in Units |-> NilErr]
    /\ uItem = [u \in Units |-> ""]
    /\ saveCalls = [u \in Units |-> <<>>]
    /\ url = NoUrl

\* No Filter has been called and no query request handled yet.
FilterIdle ==
    /\ severity = ""
    /\ fRet = NoFilterReturn
    /\ qBody = NoBody
    /\ responses = <<>>

Init ==
    /\ CONCURRENCY \in 0..MaxConcurrency
    /\ database \in {"nil", "open"}
    /\ token \in BOOLEAN
    /\ repoName \in Repos
    /\ filenames = <<>>
    /\ stored = <<>>
    /\ sinkErr = FALSE
    /\ ScanIdle
    /\ FilterIdle

\* ---------------------------------------------------- buildGitHubSearchURL
\* for _, filename := range filenames: one "+filename:<f>.json" per file
\* name, from the i-th on, in order.
RECURSIVE FilenameTerms(_, _)
FilenameTerms(fs, i) ==
    IF i > Len(fs)
    THEN <<>>
    ELSE <<Term("filename", fs[i], ".json")>> \o FilenameTerms(fs, i + 1)

\* ExtensionTerms as it would be if the extension term were always appended.
ExtensionTermsAlways(fs) == <<Term("extension", "json", "")>>

\* The closing term: "+extension:json" if no file name was given.
ExtensionTerms(fs) ==
    IF Len(fs) = 0 THEN <<Term("extension", "json", "")>> ELSE <<>>

\* buildGitHubSearchURL(repo, filenames)
buildGitHubSearchURL(repo, fs) ==
    IF repo = ""
    THEN FatalExit
    ELSE Url(GITHUB_API,
             <<Term("repo", repo, "")>> \o FilenameTerms(fs, 1)
                \o ExtensionTerms(fs))

\* Scan, up to the call of searchGitHubFiles: the storage handle is opened if
\* it is nil (InitDatabase may fail), then the token is read and the request
\* URL is built.
ScanBegin ==
    /\ pc = "Idle"
    /\ \E initOk \in BOOLEAN :
         IF database = "nil" /\ ~initOk
         THEN /\ result' = ErrorResult(Err("config", "database"), NoUnitError)
              /\ pc' = "Done"
              /\ UNCHANGED << database, url >>
         ELSE /\ database' = "open"
              /\ IF ~token
                 THEN /\ result' = ErrorResult(Err("config", "token"), NoUnitError)
                      /\ pc' = "Done"
                      /\ UNCHANGED url
                 ELSE /\ url' = buildGitHubSearchURL(repoName, filenames)
                      /\ result' = result
                      /\ pc' = "Searching"
    /\ UNCHANGED << CONCURRENCY, token, repoName, now, items, filenames >>
    /\ UNCHANGED << searchVars, poolVars, unitVars, queryVars >>

\* ------------------------------------------------------ searchGitHubFiles
\* time.Sleep(time.Duration(attempt) * time.Second), skipped when attempt = 0.
Backoff(a) == IF a > 0 THEN a ELSE 0

\* InBudget as it would be with the condition attempt < MAX_RETRIES.
InBudgetShort(a) == a < MAX_RETRIES

\* The loop condition attempt <= MAX_RETRIES.
InBudget(a) == a <= MAX_RETRIES

\* `req, err := http.NewRequest(...)` declares err anew in the loop body; the
\* failures of an iteration are assigned to that err, and the err of the
\* function scope keeps the value it had.
ErrAfterIteration(outer, cause) == outer

\* NextAttempt as it would be if a non-success status ended the search.
NextAttemptStatusFatal(a, o) == IF o = "status" THEN MAX_RETRIES + 1 ELSE a + 1

\* NextAttempt as it would be if a response that does not decode ended the
\* search.
NextAttemptDecodeFatal(a, o) == IF o = "decode" THEN MAX_RETRIES + 1 ELSE a + 1

\* Every failure of an iteration ends in `continue`, whatever failed (o): the
\* post statement attempt++ runs and the loop condition is tested again.
NextAttempt(a, o) == a + 1

\* One iteration of the search loop.
SearchAttempt ==
    /\ pc = "Searching"
    /\ InBudget(attempt)
    /\ searchSleeps' = Append(searchSleeps, Backoff(attempt))
    /\ \E o \in SearchOutcomes :
         IF o = "ok"
         THEN /\ \E found \in ItemLists : items' = found
              /\ pc' = "Found"
              /\ searchLast' = o
              /\ UNCHANGED << attempt, searchErr, result, now >>
         ELSE /\ attempt' = NextAttempt(attempt, o)
              /\ searchErr' = ErrAfterIteration(searchErr, Err("search", o))
              /\ searchLast' = o
              /\ UNCHANGED << pc, result, now, items >>
    /\ UNCHANGED << envVars, poolVars, unitVars >>

\* The loop ran out of attempts: return nil, fmt.Errorf("failed to search ...
\* after %d attempts: %w", MAX_RETRIES+1, err), and Scan returns that error.
SearchGiveUp ==
    /\ pc = "Searching"
    /\ ~InBudget(attempt)
    /\ result' = ErrorResult(Err("search", searchErr.cause), NoUnitError)
    /\ pc' = "Done"
    /\ UNCHANGED << envVars, now, items, searchVars, poolVars, unitVars >>

\* ScanAfterSearch as it would be without the check of len(items) == 0.
ScanAfterSearchNoEmptyCheck ==
    /\ pc = "Found"
    /\ pc' = "Loop"
    /\ attempt' = 0
    /\ searchSleeps' = <<>>
    /\ UNCHANGED << now, result >>
    /\ UNCHANGED << envVars, items, searchErr, searchLast, poolVars, unitVars >>

\* Scan after searchGitHubFiles returned items (the locals of the search are
\* gone): an empty item list is answered at once with an empty ScanResult,
\* otherwise processFilesInParallel is entered.
ScanAfterSearch ==
    /\ pc = "Found"
    /\ IF Len(items) = 0
       THEN \E t \in Clock :
              /\ now' = t
              /\ result' = ScanResult(0, t, repoName, <<>>)
              /\ pc' = "Done"
       ELSE /\ pc' = "Loop"
            /\ UNCHANGED << now, result >>
    /\ attempt' = 0
    /\ searchSleeps' = <<>>
    /\ UNCHANGED << envVars, items, searchErr, searchLast, poolVars, unitVars >>

\* ------------------------------------------------ processFilesInParallel
\* for _, item := range items { wg.Add(1) ...
LoopHead ==
    /\ pc = "Loop"
    /\ IF idx <= Len(items)
       THEN /\ wg' = wg + 1
            /\ pc' = "Send"
       ELSE /\ pc' = "Wait"
            /\ UNCHANGED wg
    /\ UNCHANGED << envVars, now, result, items, searchVars, unitVars >>
    /\ UNCHANGED << idx, pool, mu, processedFiles, errorsOccurred >>

\* PoolSend as it would be if the send never blocked (a pool without capacity
\* limit).
PoolSendUnbounded ==
    /\ pc = "Send"
    /\ pool' = pool + 1
    /\ pc' = "Go"
    /\ UNCHANGED << envVars, now, result, items, searchVars, unitVars >>
    /\ UNCHANGED << idx, wg, mu, processedFiles, errorsOccurred >>

\* pool <- struct{}{}: blocks while the channel holds CONCURRENCY elements.
PoolSend ==
    /\ pc = "Send"
    /\ pool < CONCURRENCY
    /\ pool' = pool + 1
    /\ pc' = "Go"
    /\ UNCHANGED << envVars, now, result, items, searchVars, unitVars >>
    /\ UNCHANGED << idx, wg, mu, processedFiles, errorsOccurred >>

\* go func(item ...) {...}(item): the goroutine gets its own copy of item.
Spawn ==
    /\ pc = "Go"
    /\ upc' = [upc EXCEPT ![idx] = "fetch"]
    /\ uItem' = [uItem EXCEPT ![idx] = items[idx]]
    /\ idx' = idx + 1
    /\ pc' = "Loop"
    /\ UNCHANGED << envVars, now, result, items, searchVars >>
    /\ UNCHANGED << pool, wg, mu, processedFiles, errorsOccurred >>
    /\ UNCHANGED << uAttempt, uSleeps, uLast, uErr, uData, uVulns, uRet,
                    saveCalls >>

\* AllFailed as it would be if a single failed unit failed the scan.
AnyFailed(errs, its) == Len(errs) > 0

\* if len(errorsOccurred) == len(items)
AllFailed(errs, its) == Len(errs) = Len(its)

\* WaitDone as it would be if wg.Wait() did not block.
WaitDoneAtOnce(counter) == TRUE

\* wg.Wait() returns when the counter is zero.
WaitDone(counter) == counter = 0

\* WaitReturn as it would be if a scan whose units all failed searched again.
WaitReturnSearchingAgain ==
    /\ pc = "Wait"
    /\ WaitDone(wg)
    /\ IF AllFailed(errorsOccurred, items)
       THEN /\ pc' = "Searching"
            /\ UNCHANGED << now, result >>
       ELSE \E t \in Clock :
              /\ now' = t
              /\ result' = ScanResult(Len(processedFiles), t, repoName,
                                      processedFiles)
              /\ pc' = "Done"
    /\ UNCHANGED << envVars, items, searchVars, poolVars, unitVars >>

\* wg.Wait() has returned; then the outcome is decided.
WaitReturn ==
    /\ pc = "Wait"
    /\ WaitDone(wg)
    /\ IF AllFailed(errorsOccurred, items)
       THEN /\ result' = ErrorResult(Err("all-failed", "first"), errorsOccurred[1])
            /\ UNCHANGED now
       ELSE \E t \in Clock :
              /\ now' = t
              /\ result' = ScanResult(Len(processedFiles), t, repoName,
                                      processedFiles)
    /\ pc' = "Done"
    /\ UNCHANGED << envVars, items, searchVars, poolVars, unitVars >>

\* ------------------------------------------------------------ processFile
\* One vulnerability with the metadata processFile adds to it.
Vuln(id, path, t) == [id |-> id, SourceFile |-> path, ScanTime |-> t]

\* The inner range loop: every payload of one block, in order.
RECURSIVE BlockVulns(_, _, _)
BlockVulns(block, path, t) ==
    IF block = <<>>
    THEN <<>>
    ELSE <<Vuln(Head(block), path, t)>> \o BlockVulns(Tail(block), path, t)

\* Normalize as it would be if only the first block of a file were taken.
NormalizeFirstBlock(blocks, path, t) ==
    IF blocks = <<>> THEN <<>> ELSE BlockVulns(Head(blocks), path, t)

\* The outer range loop over fileContent: blocks without vulnerabilities are
\* skipped, the others are appended to vulnerabilities in order.
RECURSIVE Normalize(_, _, _)
Normalize(blocks, path, t) ==
    IF blocks = <<>>
    THEN <<>>
    ELSE (IF Len(Head(blocks)) = 0
          THEN <<>>
          ELSE BlockVulns(Head(blocks), path, t))
         \o Normalize(Tail(blocks), path, t)

\* Unmarshal as it would be if malformed content were accepted.
UnmarshalLenient(data) == NilErr

\* err = json.Unmarshal(data, &fileContent): nil data and malformed data are
\* both rejected.
Unmarshal(data) == IF data.valid THEN NilErr ELSE Err("parse", "decode")

\* AttemptOf as it would be with one counter shared by all units.
AttemptShared(u) == uAttempt[1]

\* for attempt := 0; ...: each call of processFile declares its own counter.
AttemptOf(u) == uAttempt[u]

\* One iteration of the download loop of unit u. A failed io.ReadAll still
\* assigns what it read to data (data, err = io.ReadAll(res.Body)); a
\* successful one leaves the loop by break, without counting up.
FetchAttempt(u) ==
    /\ upc[u] = "fetch"
    /\ InBudget(AttemptOf(u))
    /\ uSleeps' = [uSleeps EXCEPT ![u] = Append(@, Backoff(AttemptOf(u)))]
    /\ \E o \in FetchOutcomes :
         /\ uLast' = [uLast EXCEPT ![u] = o]
         /\ uErr' = [uErr EXCEPT ![u] = ErrAfterIteration(@, Err("download", o))]
         /\ IF o = "ok"
            THEN /\ \E b \in FullBodies : uData' = [uData EXCEPT ![u] = b]
                 /\ upc' = [upc EXCEPT ![u] = "parse"]
                 /\ UNCHANGED uAttempt
            ELSE /\ IF o = "read"
                    THEN \E b \in PartialBodies :
                           uData' = [uData EXCEPT ![u] = b]
                    ELSE UNCHANGED uData
                 /\ uAttempt' = [uAttempt EXCEPT ![u] = AttemptOf(u) + 1]
                 /\ upc' = [upc EXCEPT ![u] =
                              IF InBudget(AttemptOf(u) + 1) THEN "fetch"
                              ELSE "parse"]
    /\ UNCHANGED << envVars, now, pc, result, items, searchVars, poolVars >>
    /\ UNCHANGED << uVulns, uRet, uItem, saveCalls >>

\* processFile returns e to the goroutine of unit u: the locals of the call
\* (attempt, err, data, vulnerabilities) are gone with it.
Return(u, e) ==
    /\ uRet' = [uRet EXCEPT ![u] = e]
    /\ upc' = [upc EXCEPT ![u] = "lock"]
    /\ uAttempt' = [uAttempt EXCEPT ![u] = 0]
    /\ uSleeps' = [uSleeps EXCEPT ![u] = <<>>]
    /\ uLast' = [uLast EXCEPT ![u] = "none"]
    /\ uErr' = [uErr EXCEPT ![u] = NilErr]
    /\ uData' = [uData EXCEPT ![u] = NilData]
    /\ uVulns' = [uVulns EXCEPT ![u] = <<>>]

\* processFile after the loop: the check of err, the decoding, and the
\* normalisation of the records under scanTime := time.Now(). Without
\* vulnerabilities processFile returns nil here.
Parse(u) ==
    /\ upc[u] = "parse"
    /\ IF uErr[u] # NilErr
       THEN /\ Return(u, Err("download", uErr[u].cause))
            /\ UNCHANGED now
       ELSE IF Unmarshal(uData[u]) # NilErr
       THEN /\ Return(u, Unmarshal(uData[u]))
            /\ UNCHANGED now
       ELSE \E t \in Clock :
              LET vs == Normalize(uData[u].blocks, uItem[u], t) IN
              /\ now' = t
              /\ IF Len(vs) > 0
                 THEN /\ uVulns' = [uVulns EXCEPT ![u] = vs]
                      /\ upc' = [upc EXCEPT ![u] = "store"]
                      /\ UNCHANGED << uAttempt, uSleeps, uLast, uErr, uData,
                                      uRet >>
                 ELSE Return(u, NilErr)
    /\ UNCHANGED << envVars, pc, result, items, searchVars, poolVars >>
    /\ UNCHANGED << uItem, saveCalls >>

\* Store as it would be if a failed write were tried again.
StoreRetrying(u) ==
    /\ upc[u] = "store"
    /\ saveCalls' = [saveCalls EXCEPT ![u] = Append(@, uVulns[u])]
    /\ \E ok \in BOOLEAN :
         IF ok
         THEN Return(u, NilErr)
         ELSE UNCHANGED << upc, uAttempt, uSleeps, uLast, uErr, uData, uVulns,
                           uRet >>
    /\ UNCHANGED << envVars, now, pc, result, items, searchVars, poolVars >>
    /\ UNCHANGED uItem

\* database.SaveVulnerabilities(ctx, vulnerabilities): the write succeeds or
\* fails; a failure is returned as "failed to save vulnerabilities".
Store(u) ==
    /\ upc[u] = "store"
    /\ saveCalls' = [saveCalls EXCEPT ![u] = Append(@, uVulns[u])]
    /\ \E ok \in BOOLEAN :
         Return(u, IF ok THEN NilErr ELSE Err("save", "storage"))
    /\ UNCHANGED << envVars, now, pc, result, items, searchVars, poolVars >>
    /\ UNCHANGED uItem

\* MutexFree as it would be if mu.Lock() never blocked.
MutexFreeAlways(holder) == TRUE

\* mu.Lock() blocks while another goroutine holds the mutex.
MutexFree(holder) == holder = 0

\* mu.Lock()
Lock(u) ==
    /\ upc[u] = "lock"
    /\ MutexFree(mu)
    /\ mu' = u
    /\ upc' = [upc EXCEPT ![u] = "locked"]
    /\ UNCHANGED << envVars, now, pc, result, items, searchVars >>
    /\ UNCHANGED << idx, pool, wg, processedFiles, errorsOccurred >>
    /\ UNCHANGED << uAttempt, uSleeps, uLast, uErr, uData, uVulns, uRet,
                    uItem, saveCalls >>

\* Record as it would be without the check of err: every unit is listed as
\* processed.
RecordAsProcessed(u) ==
    /\ upc[u] = "locked"
    /\ processedFiles' = Append(processedFiles, uItem[u])
    /\ UNCHANGED errorsOccurred
    /\ mu' = 0
    /\ upc' = [upc EXCEPT ![u] = "release"]
    /\ UNCHANGED << envVars, now, pc, result, items, searchVars >>
    /\ UNCHANGED << idx, pool, wg >>
    /\ UNCHANGED << uAttempt, uSleeps, uLast, uErr, uData, uVulns, uRet,
                    uItem, saveCalls >>

\* The section under the mutex: the outcome is appended to one of the two
\* lists, and the deferred mu.Unlock() runs.
Record(u) ==
    /\ upc[u] = "locked"
    /\ IF uRet[u] # NilErr
       THEN /\ errorsOccurred' = Append(errorsOccurred, UnitError(uItem[u], uRet[u]))
            /\ UNCHANGED processedFiles
       ELSE /\ processedFiles' = Append(processedFiles, uItem[u])
            /\ UNCHANGED errorsOccurred
    /\ mu' = 0
    /\ upc' = [upc EXCEPT ![u] = "release"]
    /\ UNCHANGED << envVars, now, pc, result, items, searchVars >>
    /\ UNCHANGED << idx, pool, wg >>
    /\ UNCHANGED << uAttempt, uSleeps, uLast, uErr, uData, uVulns, uRet,
                    uItem, saveCalls >>

\* defer func() { <-pool }()
Release(u) ==
    /\ upc[u] = "release"
    /\ pool > 0
    /\ pool' = pool - 1
    /\ upc' = [upc EXCEPT ![u] = "wgdone"]
    /\ UNCHANGED << envVars, now, pc, result, items, searchVars >>
    /\ UNCHANGED << idx, wg, mu, processedFiles, errorsOccurred >>
    /\ UNCHANGED << uAttempt, uSleeps, uLast, uErr, uData, uVulns, uRet,
                    uItem, saveCalls >>

\* defer wg.Done()
WgDone(u) ==
    /\ upc[u] = "wgdone"
    /\ wg' = wg - 1
    /\ upc' = [upc EXCEPT ![u] = "finished"]
    /\ UNCHANGED << envVars, now, pc, result, items, searchVars >>
    /\ UNCHANGED << idx, pool, mu, processedFiles, errorsOccurred >>
    /\ UNCHANGED << uAttempt, uSleeps, uLast, uErr, uData, uVulns, uRet,
                    uItem, saveCalls >>

Next ==
    \/ ScanBegin
    \/ SearchAttempt
    \/ SearchGiveUp
    \/ ScanAfterSearch
    \/ LoopHead
    \/ PoolSend
    \/ Spawn
    \/ WaitReturn
    \/ \E u \in Units : FetchAttempt(u)
    \/ \E u \in Units : Parse(u)
    \/ \E u \in Units : Store(u)
    \/ \E u \in Units : Lock(u)
    \/ \E u \in Units : Record(u)
    \/ \E u \in Units : Release(u)
    \/ \E u \in Units : WgDone(u)

Spec == Init /\ [][Next]_vars

\* The steps of the goroutine that runs Scan, once Scan has been called.
CoordinatorSteps ==
    \/ SearchAttempt
    \/ SearchGiveUp
    \/ ScanAfterSearch
    \/ LoopHead
    \/ PoolSend
    \/ Spawn
    \/ WaitReturn

\* The steps of the goroutine of unit u.
UnitSteps(u) ==
    \/ FetchAttempt(u)
    \/ Parse(u)
    \/ Store(u)
    \/ Lock(u)
    \/ Record(u)
    \/ Release(u)
    \/ WgDone(u)

\* Fair scheduling: a goroutine that can take a step is not kept from it
\* for ever; every request and every storage call returns.
FairSpec ==
    /\ Spec
    /\ WF_vars(CoordinatorSteps)
    /\ \A u \in Units : WF_vars(UnitSteps(u))

\* ------------------------------------------------------------------ Filter
\* SeverityMatches as it would be if the comparison ignored case.
SeverityMatchesFold(v, s) ==
    LET Fold(x) == IF x = "high" THEN "HIGH" ELSE x
    IN Fold(v.Severity) = Fold(s)

\* if v.Severity == severity
SeverityMatches(v, s) == v.Severity = s

\* The loop of GetVulnerabilities over the records from the i-th on: the
\* matching ones are appended in order.
RECURSIVE Filtered(_, _, _)
Filtered(recs, s, i) ==
    IF i > Len(recs)
    THEN <<>>
    ELSE (IF SeverityMatches(recs[i], s) THEN <<recs[i]>> ELSE <<>>)
         \o Filtered(recs, s, i + 1)

\* database.GetVulnerabilities(ctx, severity): (nil, err) if the storage
\* fails, else the matching records.
GetVulnerabilities(recs, failing, s) ==
    IF failing
    THEN [list |-> <<>>, err |-> Err("storage", "read")]
    ELSE [list |-> Filtered(recs, s, 1), err |-> NilErr]

\* What Filter makes of the answer of the storage: on an error it returns
\* an empty list and nil.
FilterResult(got) ==
    IF got.err # NilErr
    THEN FilterReturn(<<>>, NilErr)
    ELSE FilterReturn(got.list, NilErr)

\* The body of Filter(ctx, s): the storage handle is opened if it is nil
\* (InitDatabase succeeds or not), then the storage is read.
FilterCall(s, initOk) ==
    /\ severity' = s
    /\ IF database = "nil" /\ ~initOk
       THEN /\ fRet' = FilterReturn(<<>>, Err("config", "database"))
            /\ UNCHANGED database
       ELSE /\ database' = "open"
            /\ fRet' = FilterResult(GetVulnerabilities(stored, sinkErr, s))

\* Filter(ctx, severity), called on its own.
Filter ==
    /\ \E s \in Severities, initOk \in BOOLEAN : FilterCall(s, initOk)
    /\ UNCHANGED << CONCURRENCY, token, repoName, urlVars, stored, sinkErr >>
    /\ UNCHANGED << qBody, responses >>
    /\ UNCHANGED << now, pc, result, items, searchVars, poolVars, unitVars >>

\* What the handler writes after Filter returned ret: the error response if
\* err is not nil, and then, in either case, the result response.
AfterFilter(ret) ==
    (IF ret.err # NilErr THEN <<ErrorResponse(400)>> ELSE <<>>)
       \o <<ResultResponse(202, ret.list)>>

\* controller.Query(c): one request with a fresh gin.Context. A body that
\* does not bind and an empty severity are answered with 400 and return;
\* otherwise Filter is called.
Query ==
    /\ \E b \in QueryBodies, initOk \in BOOLEAN :
         /\ qBody' = b
         /\ IF ~b.valid \/ b.severity = ""
            THEN /\ responses' = <<ErrorResponse(400)>>
                 /\ UNCHANGED << severity, fRet, database >>
            ELSE /\ FilterCall(b.severity, initOk)
                 /\ responses' = AfterFilter(fRet')
    /\ UNCHANGED << CONCURRENCY, token, repoName, urlVars, stored, sinkErr >>
    /\ UNCHANGED << now, pc, result, items, searchVars, poolVars, unitVars >>

\* The states Filter is called in: any storage content, a storage that
\* answers or fails, a handle that is open or not yet.
QueryInit ==
    /\ CONCURRENCY = 3
    /\ database \in {"nil", "open"}
    /\ token = TRUE
    /\ repoName \in Repos
    /\ filenames = <<>>
    /\ stored \in StoredLists
    /\ sinkErr \in BOOLEAN
    /\ ScanIdle
    /\ FilterIdle

QueryNext ==
    \/ Filter
    \/ Query

QuerySpec == QueryInit /\ [][QueryNext]_vars

\* ------------------------------------------- buildGitHubSearchURL, applied
\* A call of buildGitHubSearchURL(repoName, filenames).
BuildURL ==
    /\ url = NoUrl
    /\ url' = buildGitHubSearchURL(repoName, filenames)
    /\ UNCHANGED << CONCURRENCY, database, token, repoName, filenames >>
    /\ UNCHANGED << now, pc, result, items, searchVars, poolVars, unitVars >>
    /\ UNCHANGED queryVars

\* The arguments buildGitHubSearchURL is called with.
UrlInit ==
    /\ CONCURRENCY = 3
    /\ database = "nil"
    /\ token = TRUE
    /\ repoName \in UrlRepos
    /\ filenames \in HintLists
    /\ stored = <<>>
    /\ sinkErr = FALSE
    /\ ScanIdle
    /\ FilterIdle

UrlNext == BuildURL

UrlSpec == UrlInit /\ [][UrlNext]_vars

\* ------------------------------------------------------------------ claims
\* Units that hold a slot of the pool: started and not yet past <-pool.
InFlight == {u \in Units : upc[u] \in {"fetch", "parse", "store", "lock",
                                        "locked", "release"}}
\* Slots taken: the units in flight and the unit the submitter has admitted
\* and is about to start.
Admitted == Cardinality(InFlight) + (IF pc = "Go" THEN 1 ELSE 0)

\* The units of this scan: one per locator.
ScanUnits == DOMAIN items
Failed(u) == uRet[u] # NilErr
FetchFailures == FetchOutcomes \ {"ok"}
SearchFailures == SearchOutcomes \ {"ok"}

\* Number of entries of sequence q equal to x.
Count(q, x) == Cardinality({i \in DOMAIN q : q[i] = x})

\* C1: with CONCURRENCY >= 1, the number of units admitted to the pool that
\* have not released their slot never exceeds CONCURRENCY.
C1_PoolBound == CONCURRENCY >= 1 => Admitted <= CONCURRENCY /\ pool <= CONCURRENCY

\* C1 witness: the pool is full and the submitter waits with a further locator.
C1_Witness ==
    /\ CONCURRENCY >= 1
    /\ Cardinality(InFlight) = CONCURRENCY
    /\ pc = "Send"

\* C2: a scan of N >= 1 locators returns an error exactly if all N units
\* failed, the error reports one of the recorded per-unit causes, and with at
\* least one succeeded unit it returns a summary and no error.
C2_ErrorIffAllFailed ==
    (pc = "Done" /\ Len(items) >= 1) =>
       /\ result.kind \in {"error", "summary"}
       /\ (result.kind = "error") <=> (\A u \in ScanUnits : Failed(u))
       /\ result.kind = "error" =>
             /\ result.err # NilErr
             /\ \E u \in ScanUnits : /\ Failed(u)
                                     /\ result.first = UnitError(items[u], uRet[u])
       /\ result.kind = "summary" => result.err = NilErr

\* C2 witness: a finished scan in which one unit failed and another
\* succeeded.
C2_Witness ==
    /\ pc = "Done"
    /\ result.kind = "summary"
    /\ \E u, v \in ScanUnits : Failed(u) /\ ~Failed(v)
    /\ errorsOccurred # <<>>

\* C3: a returned summary lists exactly the paths of the units whose
\* processFile returned no error, once per such unit; ProcessedFiles is the
\* length of that list and SourceRepo the repository passed to Scan.
C3_SummaryLists ==
    (pc = "Done" /\ result.kind = "summary") =>
       /\ \A p \in {PathOf(i) : i \in Units} :
             Count(result.SourceFiles, p) =
                Cardinality({u \in ScanUnits : items[u] = p /\ ~Failed(u)})
       /\ result.ProcessedFiles = Len(result.SourceFiles)
       /\ result.SourceRepo = repoName

\* C3 witness: a summary of a scan with a failed and a succeeded unit.
C3_Witness ==
    /\ pc = "Done"
    /\ result.kind = "summary"
    /\ result.ProcessedFiles = 1
    /\ \E u \in ScanUnits : Failed(u)

\* C4: after a successful search with zero locators no unit is started, no
\* fetch is made, storage is not called, and Scan returns a summary with
\* ProcessedFiles = 0, an empty SourceFiles and no error.
C4_EmptySearch ==
    (searchLast = "ok" /\ Len(items) = 0) =>
       /\ pc \in {"Found", "Done"}
       /\ pool = 0 /\ wg = 0
       /\ \A u \in Units : /\ upc[u] = "none"
                           /\ uSleeps[u] = <<>>
                           /\ saveCalls[u] = <<>>
       /\ pc = "Done" => /\ result.kind = "summary"
                         /\ result.err = NilErr
                         /\ result.ProcessedFiles = 0
                         /\ result.SourceFiles = <<>>

\* C4 witness: Scan has returned after a search that found nothing.
C4_Witness == searchLast = "ok" /\ Len(items) = 0 /\ pc = "Done"

\* The waits of attempts 0, 1, ..., n-1: attempt k waits k time units.
LinearWaits(sleeps) == \A k \in DOMAIN sleeps : sleeps[k] = k - 1

\* C5: the search makes attempts 0..MAX_RETRIES in order, waits k before
\* attempt k, stops at the first successful attempt; if every attempt fails it
\* has made exactly MAX_RETRIES+1 attempts and returns an error and no items.
C5_SearchRetries ==
    /\ LinearWaits(searchSleeps)
    /\ Len(searchSleeps) <= MAX_RETRIES + 1
    /\ pc = "Searching" =>
          /\ Len(searchSleeps) = attempt
          /\ attempt > 0 => searchLast \in SearchFailures
          /\ items = <<>>
    /\ pc = "Found" =>
          /\ searchLast = "ok"
          /\ Len(searchSleeps) = attempt + 1
          /\ result = NoResult
    /\ result.err.kind = "search" =>
          /\ pc = "Done"
          /\ result.kind = "error"
          /\ Len(searchSleeps) = MAX_RETRIES + 1
          /\ searchLast \in SearchFailures
          /\ items = <<>>
    /\ (pc = "Done" /\ searchLast \in SearchFailures) => result.err.kind = "search"

\* C5 witness: every attempt failed; three attempts with waits 0, 1, 2.
C5_Witness ==
    /\ result.err.kind = "search"
    /\ searchSleeps = <<0, 1, 2>>

\* C6: each unit counts its own fetch attempts from 0: at most MAX_RETRIES+1
\* attempts, a wait of k before attempt k, no attempt after a successful one,
\* and it gives up only after MAX_RETRIES+1 attempts of its own, whatever the
\* search and the other units used.
C6_OwnFetchBudget ==
    \A u \in Units :
       /\ LinearWaits(uSleeps[u])
       /\ Len(uSleeps[u]) <= MAX_RETRIES + 1
       /\ upc[u] = "fetch" =>
             /\ Len(uSleeps[u]) = uAttempt[u]
             /\ uAttempt[u] <= MAX_RETRIES
             /\ uAttempt[u] > 0 => uLast[u] \in FetchFailures
       /\ upc[u] \in {"parse", "store"} =>
             \/ uLast[u] = "ok" /\ Len(uSleeps[u]) = uAttempt[u] + 1
             \/ /\ uLast[u] \in FetchFailures
                /\ uAttempt[u] = MAX_RETRIES + 1
                /\ Len(uSleeps[u]) = MAX_RETRIES + 1

\* C6 witness: one unit has used up its attempts while another, running at
\* the same time, still has all of its own.
C6_Witness ==
    \E u, v \in Units :
       /\ upc[u] = "parse" /\ uLast[u] \in FetchFailures
       /\ uSleeps[u] = <<0, 1, 2>>
       /\ upc[v] = "fetch" /\ uAttempt[v] = 0

\* C7: a unit whose fetch attempts all failed (by transport error, non-success
\* status or body-read error) makes no upsert, and its processFile returns an
\* error.
C7_ExhaustedUnitFails ==
    [][\A u \in Units :
          (upc[u] \in {"parse", "store"} /\ uLast[u] \in FetchFailures) =>
             /\ saveCalls'[u] = saveCalls[u]
             /\ upc'[u] = "lock" => uRet'[u] # NilErr]_vars

\* C8: a unit that ran out of attempts on transport errors or non-success
\* status returns a download error carrying that cause, and only a unit whose
\* content was fetched returns a parse error.
C8_ErrorKinds ==
    [][\A u \in Units :
          (upc[u] = "parse" /\ upc'[u] = "lock") =>
             /\ uLast[u] \in {"transport", "status"} =>
                   uRet'[u] = Err("download", uLast[u])
             /\ uRet'[u].kind = "parse" => uLast[u] = "ok"]_vars

\* A unit that holds fetched content json.Unmarshal rejects.
FetchedMalformed(u) ==
    upc[u] = "parse" /\ uLast[u] = "ok" /\ ~uData[u].valid

\* What holds of a unit whose processFile returned a parse error: it is past
\* fetching and storing, it made no upsert, and once it has left the mutex its
\* failure is listed once under its path and its path is not listed as
\* processed.
ParseErrorRecorded(u) ==
    uRet[u].kind = "parse" =>
       /\ upc[u] \in {"lock", "locked", "release", "wgdone", "finished"}
       /\ saveCalls[u] = <<>>
       /\ upc[u] \in {"release", "wgdone", "finished"} =>
             /\ Count(errorsOccurred, UnitError(items[u], Err("parse", "decode"))) = 1
             /\ Count(processedFiles, items[u]) = 0

\* C9: a unit whose file was fetched but does not decode fails at once with a
\* parse error: its next step returns the parse error without a further fetch
\* attempt and without an upsert, and the failure is recorded under the file
\* path.
C9_DecodeFailureIsFinal ==
    /\ [](\A u \in Units : ParseErrorRecorded(u))
    /\ [][\A u \in Units :
             FetchedMalformed(u) =>
                /\ saveCalls'[u] = saveCalls[u]
                /\ upc'[u] \in {"parse", "lock"}
                /\ upc'[u] = "parse" => UNCHANGED << uSleeps[u], uAttempt[u] >>
                /\ upc'[u] = "lock" => uRet'[u] = Err("parse", "decode")]_vars

\* C9 witness: a unit holds malformed content fetched at its first attempt,
\* with retries left.
C9_Witness ==
    \E u \in Units : FetchedMalformed(u) /\ uAttempt[u] = 0

\* The scan timestamps of the records handed to SaveVulnerabilities.
SavedTimes ==
    UNION {{saveCalls[u][i][j].ScanTime : j \in DOMAIN saveCalls[u][i]} :
              <<u, i>> \in {<<v, k>> \in Units \X (1..MaxItems) :
                              k \in DOMAIN saveCalls[v]}}

\* C10: all records a scan hands to storage carry one scan timestamp, and it
\* is the timestamp of the returned summary.
C10_SingleScanTime ==
    /\ Cardinality(SavedTimes) <= 1
    /\ (pc = "Done" /\ result.kind = "summary") =>
          SavedTimes \subseteq {result.ScanTime}

\* C11: without the token, Scan makes no search request, retries nothing,
\* starts no unit, and what it returns is the missing-token configuration
\* error, whatever the state of the storage handle.
C11_MissingTokenFailsFast ==
    ~token =>
       /\ pc \in {"Idle", "Done"}
       /\ searchSleeps = <<>> /\ attempt = 0
       /\ pool = 0 /\ wg = 0
       /\ \A u \in Units : upc[u] = "none"
       /\ pc = "Done" =>
             result = ErrorResult(Err("config", "token"), NoUnitError)

\* C12: when the read of the storage fails, Filter returns a non-nil error.
C12_ReadFailureSurfaces ==
    (fRet.kind = "returned" /\ sinkErr) => fRet.err # NilErr

\* The records of sequence q with severity s, as a bag: how often each record
\* occurs in q.
MatchCount(q, v, s) == IF v.Severity = s THEN Count(q, v) ELSE 0

\* C13: with a working storage, Filter(severity) returns no error and exactly
\* the stored records whose severity is the requested string, compared
\* exactly: none is left out, none is added, and for a severity no record
\* has the list is empty.
C13_ExactSeverityFilter ==
    (fRet.kind = "returned" /\ database = "open" /\ ~sinkErr) =>
       /\ fRet.err = NilErr
       /\ \A i \in DOMAIN fRet.list : fRet.list[i].Severity = severity
       /\ \A i \in DOMAIN stored :
             Count(fRet.list, stored[i]) = MatchCount(stored, stored[i], severity)
       /\ \A i \in DOMAIN fRet.list :
             \E j \in DOMAIN stored : stored[j] = fRet.list[i]
       /\ (\A i \in DOMAIN stored : stored[i].Severity # severity) =>
             fRet.list = <<>>

\* C13 witness: Filter("HIGH") returned one record from a storage that also
\* holds a "high" and a "MEDIUM" one.
C13_Witness ==
    /\ fRet.kind = "returned" /\ fRet.err = NilErr
    /\ database = "open" /\ ~sinkErr
    /\ severity = "HIGH"
    /\ Len(fRet.list) = 1
    /\ \E i, j \in DOMAIN stored : /\ stored[i].Severity = "high"
                                   /\ stored[j].Severity = "MEDIUM"

\* C14: for a non-empty repository name the search URL is the base query
\* "?q=repo:<repo>" followed by exactly one of two things: with at least one
\* hint, one "filename:<hint>.json" term per hint, in the order of the hints,
\* and no extension term; with no hint, the single term "extension:json" and
\* no filename term.
C14_SearchUrlShape ==
    (url # NoUrl /\ repoName # "") =>
       /\ url.kind = "url"
       /\ url.base = GITHUB_API
       /\ Len(url.terms) >= 1
       /\ url.terms[1] = Term("repo", repoName, "")
       /\ LET rest == SubSeq(url.terms, 2, Len(url.terms)) IN
          IF Len(filenames) >= 1
          THEN /\ Len(rest) = Len(filenames)
               /\ \A i \in DOMAIN rest :
                     rest[i] = Term("filename", filenames[i], ".json")
          ELSE rest = <<Term("extension", "json", "")>>

\* C14 witness: the URL built from two different hints.
C14_Witness ==
    /\ url.kind = "url"
    /\ Len(filenames) = 2
    /\ filenames[1] # filenames[2]
    /\ Len(url.terms) = 3

\* C15: in the search, a transport error, a non-success status and a
\* response body that does not decode each fail the current attempt only:
\* the search stays in its loop with the next attempt due, returns nothing
\* yet, and gives up only when the budget is used up.
C15_SearchFailuresRetry ==
    /\ []((pc = "Done" /\ searchLast \in {"transport", "status", "decode"}) =>
            /\ attempt = MAX_RETRIES + 1
            /\ Len(searchSleeps) = MAX_RETRIES + 1)
    /\ [][(/\ pc = "Searching"
            /\ searchSleeps' # searchSleeps
            /\ searchLast' \in {"transport", "status", "decode"}) =>
              /\ pc' = "Searching"
              /\ attempt' = attempt + 1
              /\ result' = NoResult
              /\ items' = <<>>]_vars
    /\ [][(pc = "Searching" /\ InBudget(attempt) /\ pc' # pc) =>
              pc' = "Found"]_vars

\* C15 witness: the second attempt of a search failed on the status, and a
\* third is due.
C15_Witness ==
    /\ pc = "Searching"
    /\ searchLast = "status"
    /\ searchSleeps = <<0, 1>>
    /\ InBudget(attempt)

\* C16 as stated: after a search response that does not decode, the search
\* makes no further attempt.
C16_SearchDecodeNotRetried ==
    [][(pc = "Searching" /\ searchLast = "decode") =>
          searchSleeps' = searchSleeps]_vars

\* C16, amended: only the decode failure of a file payload is final (the
\* unit makes no further fetch attempt); a search response that does not
\* decode is retried like every other failed attempt: with budget left the
\* next step of the search is another attempt, and a search that ended on a
\* decode failure has made all MAX_RETRIES+1 attempts.
C16_DecodeFinalForFilesOnly ==
    /\ []((pc = "Done" /\ searchLast = "decode") =>
            Len(searchSleeps) = MAX_RETRIES + 1)
    /\ [][(pc = "Searching" /\ searchLast = "decode" /\ InBudget(attempt)) =>
              \/ UNCHANGED << pc, searchSleeps >>
              \/ Len(searchSleeps') = Len(searchSleeps) + 1]_vars
    /\ [][\A u \in Units :
             FetchedMalformed(u) =>
                /\ uSleeps'[u] \in {uSleeps[u], <<>>}
                /\ upc'[u] # "fetch"]_vars

\* C16 witness: the first attempt of a search failed decoding and the
\* second attempt, made after it, failed decoding again.
C16_Witness ==
    /\ pc = "Searching"
    /\ searchLast = "decode"
    /\ attempt = MAX_RETRIES

\* The units that have left the section under the mutex.
PastSection == {u \in Units : upc[u] \in {"release", "wgdone", "finished"}}
\* Number of outcomes recorded for the locator of unit u, in both lists.
Recorded(u) ==
    Count(processedFiles, items[u])
      + Cardinality({i \in DOMAIN errorsOccurred :
                       errorsOccurred[i].path = items[u]})

\* C17: each unit records exactly one outcome (none before it has passed
\* the section under the mutex, one from then on), and when Scan has decided
\* on a list of N >= 1 locators every unit has finished and recorded, so
\* that successes plus failures equal N.
C17_DecisionAfterAllRecorded ==
    /\ \A u \in ScanUnits :
          Recorded(u) = IF u \in PastSection THEN 1 ELSE 0
    /\ (pc = "Done" /\ Len(items) >= 1) =>
          /\ \A u \in ScanUnits : upc[u] = "finished" /\ Recorded(u) = 1
          /\ Len(processedFiles) + Len(errorsOccurred) = Len(items)
          /\ wg = 0

\* C17 witness: Scan has decided on two locators, one recorded as processed
\* and one as failed.
C17_Witness ==
    /\ pc = "Done"
    /\ Len(items) >= 2
    /\ Len(processedFiles) >= 1
    /\ Len(errorsOccurred) >= 1

\* Sequence p is an initial part of sequence q.
IsPrefix(p, q) == Len(p) <= Len(q) /\ SubSeq(q, 1, Len(p)) = p

\* C18: at most one unit at a time is inside the section that reads and
\* appends to the outcome lists, it is the holder of the mutex, and no
\* recorded outcome is lost: the lists only grow by appending, and every
\* unit that has left the section is listed once, with what its processFile
\* returned.
C18_MutualExclusion ==
    /\ [](/\ Cardinality({u \in Units : upc[u] = "locked"}) <= 1
          /\ \A u \in Units : upc[u] = "locked" <=> mu = u
          /\ Len(processedFiles) + Len(errorsOccurred) = Cardinality(PastSection)
          /\ \A u \in PastSection :
                IF uRet[u] = NilErr
                THEN Count(processedFiles, uItem[u]) = 1
                ELSE Count(errorsOccurred, UnitError(uItem[u], uRet[u])) = 1)
    /\ [][/\ IsPrefix(processedFiles, processedFiles')
          /\ IsPrefix(errorsOccurred, errorsOccurred')]_vars

\* C18 witness: one unit is inside the section while another waits for the
\* mutex.
C18_Witness ==
    \E u, v \in Units : upc[u] = "locked" /\ upc[v] = "lock"

\* The order of the steps of one unit: fetch attempts, then the parse, then
\* the store, then the recording of the outcome.
UnitStepOrder ==
    { <<"fetch", "fetch">>, <<"fetch", "parse">>, <<"parse", "store">>,
      <<"parse", "lock">>, <<"store", "lock">> }

\* C19: within a unit fetch, parse and store follow one another in this
\* order; the unit makes at most one upsert, only after its fetch and its
\* parse both succeeded and only with at least one record; a fetched file
\* that decodes to no record is a success without an upsert.
C19_FetchParseStore ==
    [][\A u \in Units :
          /\ (upc[u] \in {"fetch", "parse", "store"} /\ upc'[u] # upc[u]) =>
                << upc[u], upc'[u] >> \in UnitStepOrder
          /\ saveCalls'[u] # saveCalls[u] =>
                /\ saveCalls[u] = <<>>
                /\ upc[u] = "store"
                /\ uLast[u] = "ok"
                /\ Unmarshal(uData[u]) = NilErr
                /\ Len(uVulns[u]) >= 1
                /\ saveCalls'[u] = << uVulns[u] >>
          /\ (/\ upc[u] = "parse" /\ uLast[u] = "ok" /\ uData[u].valid
              /\ \A i \in DOMAIN uData[u].blocks : uData[u].blocks[i] = <<>>) =>
                /\ saveCalls'[u] = saveCalls[u]
                /\ upc'[u] \in {"parse", "lock"}
                /\ upc'[u] = "lock" => uRet'[u] = NilErr]_vars

\* C20: admission is by blocking. While CONCURRENCY units hold a slot the
\* submitter starts no unit; the range loop moves on only by starting the
\* unit of the locator it is at, so no locator is dropped and no unit is
\* started twice; and under fair scheduling every locator the search
\* returned is eventually dispatched.
C20_BlockingAdmission ==
    /\ [](\A u \in Units : upc[u] # "none" => u < idx /\ uItem[u] = items[u])
    /\ [][/\ Cardinality(InFlight) >= CONCURRENCY =>
                \A u \in Units : upc[u] = "none" => upc'[u] = "none"
          /\ idx' # idx =>
                /\ idx' = idx + 1
                /\ upc[idx] = "none" /\ upc'[idx] = "fetch"
                /\ uItem'[idx] = items[idx]
          /\ \A u \in Units :
                (upc[u] # "fetch" /\ upc'[u] = "fetch") =>
                   upc[u] = "none" /\ u = idx]_vars
    /\ \A u \in Units :
          (pc = "Loop" /\ u \in DOMAIN items) ~> (upc[u] # "none")

\* Unit u takes the step in which its processFile returns an error.
FailsNow(u) ==
    /\ upc[u] \in {"parse", "store"}
    /\ upc'[u] = "lock"
    /\ uRet'[u] # NilErr

\* What belongs to unit v alone.
UnitState(v) ==
    << upc[v], uAttempt[v], uSleeps[v], uLast[v], uErr[v], uData[v],
       uVulns[v], uRet[v], uItem[v], saveCalls[v] >>

\* C21: the failure of a unit, of whatever kind, stays with that unit: the
\* step in which its processFile returns the error changes nothing of any
\* other unit and nothing of the submitter (its position in the loop, the
\* pool, the result), the failed unit goes on to record its outcome, the
\* loop is left only when every locator has been dispatched, and a write
\* to the storage is made at most once per unit, failed or not.
C21_FailureStaysWithUnit ==
    /\ [](/\ \A u \in Units : Len(saveCalls[u]) <= 1
          /\ pc \in {"Wait", "Done"} /\ Len(items) >= 1 => idx = Len(items) + 1
          /\ \A u \in PastSection :
                uRet[u] # NilErr =>
                   Count(errorsOccurred, UnitError(uItem[u], uRet[u])) = 1)
    /\ [][\A u \in Units :
             FailsNow(u) =>
                /\ \A v \in Units \ {u} : UnitState(v)' = UnitState(v)
                /\ UNCHANGED << pc, idx, pool, wg, result, items >>
                /\ uRet'[u].kind = "save" => saveCalls'[u] = << uVulns[u] >>]_vars

\* C21 witness: with one slot, the first unit failed on its write to the
\* storage and the second locator was dispatched after it.
C21_Witness ==
    /\ CONCURRENCY = 1
    /\ uRet[1].kind = "save"
    /\ 1 \in PastSection
    /\ upc[2] = "fetch"

\* The state of the scan invocation, read off the position of Scan and what
\* it returned.
Phase ==
    CASE pc = "Idle" -> "Idle"
      [] pc \in {"Searching", "Found"} -> "Searching"
      [] pc \in {"Loop", "Send", "Go"} -> "Dispatching"
      [] pc = "Wait" -> "Awaiting-Completion"
      [] pc = "Done" /\ result.err.kind = "config" -> "Config-Error"
      [] pc = "Done" /\ result.err.kind = "search" -> "Search-Error"
      [] pc = "Done" /\ result.err.kind = "all-failed" -> "All-Failed"
      [] pc = "Done" /\ result.kind = "summary" /\ Len(items) = 0 -> "Empty-Done"
      [] pc = "Done" /\ result.kind = "summary" /\ Len(items) > 0 ->
            "Partial-or-Full-Success"
      [] OTHER -> "none"

\* The transitions of a scan invocation; the two error exits are the
\* returns of Scan before and after the search.
PhaseSteps ==
    { <<"Idle", "Searching">>, <<"Idle", "Config-Error">>,
      <<"Searching", "Empty-Done">>, <<"Searching", "Dispatching">>,
      <<"Searching", "Search-Error">>,
      <<"Dispatching", "Awaiting-Completion">>,
      <<"Awaiting-Completion", "All-Failed">>,
      <<"Awaiting-Completion", "Partial-or-Full-Success">> }

\* C22: a scan invocation moves only along Idle, Searching, Empty-Done or
\* Dispatching, Awaiting-Completion, All-Failed or Partial-or-Full-Success
\* (and the error returns of Scan); a unit exists only after a search that
\* returned a non-empty list and never after a search error; once Scan has
\* returned nothing changes any more; the search is never run again and a
\* unit that returned an error is never started again.
C22_ScanStateMachine ==
    /\ [](/\ Phase # "none"
          /\ \A u \in Units :
                upc[u] # "none" =>
                   /\ searchLast = "ok" /\ u <= Len(items)
                   /\ Phase \in {"Dispatching", "Awaiting-Completion",
                                 "All-Failed", "Partial-or-Full-Success"}
          /\ Phase = "Search-Error" => items = <<>>)
    /\ [][/\ Phase' # Phase => << Phase, Phase' >> \in PhaseSteps
          /\ pc # "Done"
          /\ Phase # "Searching" => Len(searchSleeps') <= Len(searchSleeps)
          /\ \A u \in Units :
                upc[u] \notin {"none", "fetch"} => upc'[u] # "fetch"]_vars

\* C22 witness: Scan has returned the all-failed error, after the search,
\* the dispatch and the wait.
C22_Witness ==
    /\ Phase = "All-Failed"
    /\ Len(items) = MaxItems
    /\ \A u \in ScanUnits : upc[u] = "finished"

\* C23: under fair scheduling every scan invocation that was started
\* returns a summary or an error, for every number of locators and every
\* CONCURRENCY >= 0.
C23_ScanTerminates ==
    (pc # "Idle") ~> (pc = "Done" /\ result.kind \in {"summary", "error"})

\* The record ids of a file, block after block.
RECURSIVE Flatten(_)
Flatten(blocks) ==
    IF blocks = <<>> THEN <<>> ELSE Head(blocks) \o Flatten(Tail(blocks))

\* The record ids of a batch, in order.
IdsOf(batch) == [j \in 1..Len(batch) |-> batch[j].id]

\* C24: every record a unit hands to SaveVulnerabilities names as source
\* file the path of the locator that unit was started for, under every
\* interleaving, and the batch holds the records of all blocks of the
\* unit's file, block after block and in the order within each block, each
\* once.
C24_OwnPathWholeFile ==
    /\ [](\A u \in Units :
            \A i \in DOMAIN saveCalls[u] :
               /\ u \in DOMAIN items
               /\ \A j \in DOMAIN saveCalls[u][i] :
                     saveCalls[u][i][j].SourceFile = items[u])
    /\ [][\A u \in Units :
             saveCalls'[u] # saveCalls[u] =>
                IdsOf(saveCalls'[u][Len(saveCalls'[u])]) =
                   Flatten(uData[u].blocks)]_vars

\* C24 witness: two units have each handed over the three records of their
\* file, under different paths.
C24_Witness ==
    \E u, v \in Units :
       /\ u # v
       /\ saveCalls[u] # <<>> /\ saveCalls[v] # <<>>
       /\ IdsOf(saveCalls[u][1]) = <<"v1", "v2", "v1">>
       /\ saveCalls[u][1][1].SourceFile # saveCalls[v][1][1].SourceFile

\* C25: the Query handler writes exactly one response per request: one
\* error response and no result response if the body is invalid, the
\* severity is empty or Filter returned an error; one result response
\* otherwise.
C25_OneResponse ==
    [][<< qBody, responses >>' # << qBody, responses >> =>
          /\ Len(responses') = 1
          /\ responses'[1].kind =
                IF \/ ~qBody'.valid
                   \/ qBody'.severity = ""
                   \/ fRet'.err # NilErr
                THEN "error" ELSE "result"]_vars
====
